---- MODULE Spec2Model ----
(***************************************************************************)
(* A model of the play-mode runtime of the game builder: the GameScene     *)
(* class of PhaserRuntime (src/src/services/project/ImportService.ts,      *)
(* lines 428-975).  A scene description (an ordered list of objects, each  *)
(* with an ordered list of behaviors) is compiled by create() into         *)
(* sprites, collider pairs, gravity zones and controlled objects; update() *)
(* then runs once per frame.                                               *)
(*                                                                         *)
(* Numbers are integers.  The scene positions used are multiples of        *)
(* (300,400), so every distance is a multiple of 500 and the inverse       *)
(* square arithmetic of the force step is exact.                           *)
(***************************************************************************)
EXTENDS Integers, Sequences, FiniteSets, TLC

\* ---------------------------------------------------------------- bounds
MaxObjects == 2      \* longest scene of the scene-build specification
MaxTicks == 2        \* frames simulated by the tick specification
MaxHeld == 1         \* input sources held down at the same time
MaxPressed == 2      \* input sources held down at once in the input scenes
MaxFlightTicks == 3  \* frames simulated in the jump scenes
MaxGames == 4        \* Phaser.Game instances created by one host

\* ------------------------------------------------------ program constants
GravityUnit == 300              \* body.setGravityY(gravityScale * 300)
DefaultGravityStrength == 500   \* gravityStrength when the property is unset
DefaultMaxDistance == 800       \* maxPullDistance without a Gravity behavior
PullFactor == 10000             \* finalGravityStrength / d^2 * 10000

\* A value that may be undefined in JavaScript: <<>> is undefined, <<v>> is v.
None == <<>>

Some(v) == <<v>>

\* ------------------------------------------------------------- arithmetic
Abs(n) == IF n < 0 THEN -n ELSE n

Sign(n) == IF n < 0 THEN -1 ELSE IF n > 0 THEN 1 ELSE 0

\* Division rounding toward zero (exact on every value the scenes produce).
Quot(a, b) == Sign(a) * Sign(b) * (Abs(a) \div Abs(b))

RECURSIVE SqrtSearch(_, _, _)
SqrtSearch(n, lo, hi) ==
  IF lo >= hi THEN lo
  ELSE LET mid == (lo + hi + 1) \div 2
       IN  IF mid * mid <= n THEN SqrtSearch(n, mid, hi)
           ELSE SqrtSearch(n, lo, mid - 1)

\* Math.sqrt, rounded down (the search stays below the square root of 2^31).
Sqrt(n) == SqrtSearch(n, 0, IF n < 46340 THEN n ELSE 46340)

\* Math.sqrt(dx * dx + dy * dy)
Distance(dx, dy) == Sqrt(dx * dx + dy * dy)

\* JavaScript truthiness of a number: 0 is falsy.
NumOr(n, default) == IF n # 0 THEN n ELSE default

\* JavaScript truthiness of a flag that may be undefined.
IsTrue(opt) == opt = Some(TRUE)

\* ------------------------------------------------------ scene description
\* The positions objects are authored at and bodies are moved to.
Positions == << <<0, 0>>, <<300, 400>>, <<600, 800>> >>

PositionSet == {Positions[i] : i \in DOMAIN Positions}

\* Behavior parameters.  A parameter the scene may leave out is None or Some(v).
PhysicsB(enabled, gravityScale) ==
  [type |-> "physics", enabled |-> enabled, gravityScale |-> gravityScale]

ControlsB(enabled, allowVertical, canDoubleJump) ==
  [type |-> "controls", enabled |-> enabled,
   allowVerticalMovement |-> allowVertical,
   moveSpeed |-> 200, jumpPower |-> 400, canDoubleJump |-> canDoubleJump]

ObliqueB(enabled, isStatic, group, only) ==
  [type |-> "oblique", enabled |-> enabled, isStatic |-> isStatic,
   collisionGroup |-> group, onlyCollideWithOblique |-> only]

FixedB(enabled, pos) ==
  [type |-> "fixed", enabled |-> enabled, screenX |-> pos[1], screenY |-> pos[2]]

GravityB(enabled, strength, maxDistance) ==
  [type |-> "gravity", enabled |-> enabled, strength |-> strength,
   maxDistance |-> maxDistance]

\* smoothing is in hundredths; deadzone is None or Some(<<width, height>>).
CameraB(enabled, smoothing, offset, deadzone) ==
  [type |-> "camera", enabled |-> enabled, smoothing |-> smoothing,
   offsetX |-> offset[1], offsetY |-> offset[2], deadzone |-> deadzone]

\* A GameObject; gravityStrength is properties.gravityStrength (None: unset).
Obj(id, type, pos, gravityStrength, behaviors) ==
  [id |-> id, type |-> type, position |-> pos,
   gravityStrength |-> gravityStrength, behaviors |-> behaviors]

\* The object types: the GameObject type union and the textures of preload().
KnownTypes ==
  {"sprite", "platform", "collectible", "enemy", "player", "controller",
   "boundary", "gravity"}

\* The result of a find() that matched nothing.
NotFound == [type |-> "<none>", enabled |-> FALSE]

Found(b) == b.type # "<none>"

\* obj.behaviors.find(b => b.type === t): the first behavior of the type.
Find(behaviors, t) ==
  LET idx == {i \in DOMAIN behaviors : behaviors[i].type = t}
  IN  IF idx = {} THEN NotFound
      ELSE behaviors[CHOOSE i \in idx : \A j \in idx : i <= j]

\* b && b.parameters.enabled
Enabled(b) == Found(b) /\ b.enabled

\* obj.behaviors.some(b => b.type === t && b.parameters.enabled)
SomeEnabled(behaviors, t) ==
  \E i \in DOMAIN behaviors : behaviors[i].type = t /\ behaviors[i].enabled

\* controlsBehavior?.parameters?.allowVerticalMovement
AllowVertical(controlsBehavior) ==
  IF Found(controlsBehavior) THEN controlsBehavior.allowVerticalMovement ELSE None

\* ------------------------------------------------------------------ state
VARIABLES
  objects,            \* scene.objects: the scene description being played
  objectSprites,      \* Map id -> sprite, in insertion order
  gravityZones,       \* Array of {sprite, data, text}
  controlledObjects,  \* Map id -> {sprite, params}, in insertion order
  colliders,          \* the colliders physics.add.collider created, in order
  widgets,            \* the controller objects whose buttons were built
  virtualController,  \* the shared signal map of the on-screen buttons
  keysDown,           \* keyboard keys whose isDown is true
  justDown,           \* keyboard keys whose _justDown flag is set
  touchingDown,       \* sprites whose body touches or is blocked downward
  pc,                 \* where the frame loop stands
  steps,              \* the steps update() has run in the current tick
  ticks,              \* update() calls started so far
  airJumps,           \* per controlled object: airborne impulses since it left
                      \* the ground, -1 while it has not (history)
  pointerOn,          \* the buttons the pointer is pressing (the browser's side)
  tap,                \* the last pointer press, when observed (history)
  camera,             \* cameras.main: follow target, lerp, offset, deadzone
  padOn,              \* the <<widget, button>> pairs a pointer is pressing
  mounted,            \* PhaserRuntime is mounted by its host
  project,            \* the project prop of the mounted component
  gameRef,            \* gameRef.current: None or Some(game id)
  games,              \* the Phaser.Game instances that exist
  gamesCreated        \* Phaser.Game instances constructed so far

vars == <<objects, objectSprites, gravityZones, controlledObjects, colliders,
          widgets, virtualController, keysDown, justDown, touchingDown,
          pc, steps, ticks, airJumps, pointerOn, tap, camera, padOn,
          mounted, project, gameRef, games, gamesCreated>>

\* The GameScene of the running game, and the component around it.
sceneVars == <<objects, objectSprites, gravityZones, controlledObjects, colliders,
               widgets, virtualController, keysDown, justDown, touchingDown,
               pc, steps, ticks, airJumps, pointerOn, tap, camera,
               padOn>>

hostVars == <<mounted, project, gameRef, games, gamesCreated>>

\* ------------------------------------------------------------ scene build
\* this.physics.add.sprite(obj.position.x, obj.position.y, texture): every
\* sprite is created with an arcade body, at rest.
NewSprite(obj) ==
  [objectId |-> obj.id, data |-> obj,
   x |-> obj.position[1], y |-> obj.position[2],
   vx |-> 0, vy |-> 0, ax |-> 0, ay |-> 0, gravityY |-> 0,
   allowGravity |-> TRUE, immovable |-> FALSE, collideWorldBounds |-> FALSE,
   hasOblique |-> None, obliqueGroup |-> None, onlyCollideWithOblique |-> None,
   isFixed |-> None, fixedX |-> None, fixedY |-> None]

\* The text label of a gravity zone: Math.abs(obj.properties?.gravityStrength || 500)
ZoneLabel(obj) ==
  Abs(IF obj.gravityStrength = None THEN DefaultGravityStrength
      ELSE NumOr(obj.gravityStrength[1], DefaultGravityStrength))

ApplyGravityType(obj, sprite) ==
  IF obj.type = "gravity"
  THEN [sprite EXCEPT !.allowGravity = FALSE, !.immovable = TRUE]
  ELSE sprite

\* hasVerticalMovement = controlsBehavior?.parameters?.allowVerticalMovement !== false
HasVerticalMovement(behaviors) ==
  AllowVertical(Find(behaviors, "controls")) # Some(FALSE)

\* A faulty variant of BodyGravityY that lets a Physics body always fall.
BodyGravityYAlwaysFalls(obj) ==
  NumOr(Find(obj.behaviors, "physics").gravityScale, 0) * GravityUnit

\* gravityScale = hasVerticalMovement ? 0 : (gravityScale || 0);
\* body.setGravityY(gravityScale * 300)
BodyGravityY(obj) ==
  (IF HasVerticalMovement(obj.behaviors) THEN 0
   ELSE NumOr(Find(obj.behaviors, "physics").gravityScale, 0)) * GravityUnit

\* Boundaries are static; every other type takes its Physics behavior.
ApplyPhysics(obj, sprite) ==
  IF obj.type = "boundary"
  THEN [sprite EXCEPT !.immovable = TRUE, !.allowGravity = FALSE,
                      !.collideWorldBounds = FALSE]
  ELSE IF Enabled(Find(obj.behaviors, "physics"))
  THEN [sprite EXCEPT !.collideWorldBounds = TRUE, !.gravityY = BodyGravityY(obj)]
  ELSE sprite

\* The Oblique behavior: static body and the tags read by setupCollisions.
ApplyOblique(obj, sprite) ==
  LET ob == Find(obj.behaviors, "oblique")
  IN  IF Enabled(ob)
      THEN [sprite EXCEPT
              !.immovable = IF ob.isStatic THEN TRUE ELSE @,
              !.allowGravity = IF ob.isStatic THEN FALSE ELSE @,
              !.hasOblique = Some(TRUE),
              !.obliqueGroup = Some(ob.collisionGroup),
              !.onlyCollideWithOblique = Some(ob.onlyCollideWithOblique)]
      ELSE sprite

\* The Fixed behavior: pin to the screen position and remember it.
ApplyFixed(obj, sprite) ==
  LET fb == Find(obj.behaviors, "fixed")
  IN  IF Enabled(fb)
      THEN [sprite EXCEPT !.x = fb.screenX, !.y = fb.screenY,
                          !.isFixed = Some(TRUE),
                          !.fixedX = Some(fb.screenX), !.fixedY = Some(fb.screenY)]
      ELSE sprite

\* A faulty variant of ShouldCollide that skips the collision-group comparison.
ShouldCollideNoGroups(sprite1, sprite2) ==
  LET o1 == IsTrue(sprite1.hasOblique)
      o2 == IsTrue(sprite2.hasOblique)
  IN  ~ (IsTrue(sprite1.onlyCollideWithOblique) /\ ~ o2)
      /\ ~ (IsTrue(sprite2.onlyCollideWithOblique) /\ ~ o1)

\* A faulty variant of ShouldCollide that tests onlyCollideWithOblique of the first
\* sprite only.
ShouldCollideOneSided(sprite1, sprite2) ==
  LET o1 == IsTrue(sprite1.hasOblique)
      o2 == IsTrue(sprite2.hasOblique)
  IN  /\ ~ (IsTrue(sprite1.onlyCollideWithOblique) /\ ~ o2)
      /\ (o1 /\ o2) => sprite1.obliqueGroup = sprite2.obliqueGroup

\* A faulty variant of ShouldCollide that lets an oblique sprite collide with
\* oblique sprites only, whatever its onlyCollideWithOblique.
ShouldCollideObliqueOnly(sprite1, sprite2) ==
  LET o1 == IsTrue(sprite1.hasOblique)
      o2 == IsTrue(sprite2.hasOblique)
  IN  /\ o1 = o2
      /\ (o1 /\ o2) => sprite1.obliqueGroup = sprite2.obliqueGroup

\* A faulty variant of ShouldCollide that tests onlyCollideWithOblique of the second
\* sprite only.
ShouldCollideSecondOnly(sprite1, sprite2) ==
  LET o1 == IsTrue(sprite1.hasOblique)
      o2 == IsTrue(sprite2.hasOblique)
      case2 == (o1 \/ o2) /\ IsTrue(sprite2.onlyCollideWithOblique) /\ ~ o1
      afterOnly == ~ case2
  IN  IF o1 /\ o2 /\ afterOnly
      THEN sprite1.obliqueGroup = sprite2.obliqueGroup
      ELSE afterOnly

\* shouldCollide of setupCollisions for one pair.
ShouldCollide(sprite1, sprite2) ==
  LET o1 == IsTrue(sprite1.hasOblique)
      o2 == IsTrue(sprite2.hasOblique)
      case1 == (o1 \/ o2) /\ IsTrue(sprite1.onlyCollideWithOblique) /\ ~ o2
      case2 == (o1 \/ o2) /\ IsTrue(sprite2.onlyCollideWithOblique) /\ ~ o1
      afterOnly == ~ case1 /\ ~ case2
  IN  IF o1 /\ o2 /\ afterOnly
      THEN sprite1.obliqueGroup = sprite2.obliqueGroup
      ELSE afterOnly

\* The pairs (i, j), i < j, in the order of the two nested forEach loops.
PairsInOrder(n) ==
  LET pairs == {p \in (1..n) \X (1..n) : p[1] < p[2]}
      rank(p) == p[1] * (n + 1) + p[2]
  IN  [k \in 1..Cardinality(pairs) |->
         CHOOSE p \in pairs : Cardinality({q \in pairs : rank(q) < rank(p)}) = k - 1]

\* setupCollisions(): one collider per pair of sprites that should collide
\* (every sprite has a body, so the filter keeps them all).
SetupCollisions(sprites) ==
  LET order == PairsInOrder(Len(sprites))
      hit == SelectSeq(order, LAMBDA p : ShouldCollide(sprites[p[1]], sprites[p[2]]))
  IN  [k \in 1..Len(hit) |-> <<sprites[hit[k][1]].objectId, sprites[hit[k][2]].objectId>>]

\* The runtime state create() builds, as one record.
EmptyScene ==
  [objectSprites |-> <<>>, gravityZones |-> <<>>, controlledObjects |-> <<>>,
   colliders |-> <<>>, widgets |-> <<>>]

\* createGameObject(obj)
CreateGameObject(st, obj) ==
  IF obj.type = "controller"
  THEN [st EXCEPT !.widgets = Append(@, obj.id)]
  ELSE
    LET created == NewSprite(obj)
        sprite == ApplyFixed(obj, ApplyOblique(obj,
                    ApplyPhysics(obj, ApplyGravityType(obj, created))))
        cb == Find(obj.behaviors, "controls")
        sprites == Append(st.objectSprites, sprite)
    IN  [st EXCEPT
          !.objectSprites = sprites,
          !.gravityZones =
             IF obj.type = "gravity"
             THEN Append(@, [objectId |-> obj.id, data |-> obj,
                             text |-> [x |-> created.x, y |-> created.y,
                                       label |-> ZoneLabel(obj)]])
             ELSE @,
          !.controlledObjects =
             IF Enabled(cb) THEN Append(@, [objectId |-> obj.id, params |-> cb])
             ELSE @,
          !.colliders = @ \o SetupCollisions(sprites)]

\* objects.forEach(obj => this.createGameObject(obj))
RECURSIVE CreateAll(_, _)
CreateAll(st, objs) ==
  IF objs = <<>> THEN st
  ELSE CreateAll(CreateGameObject(st, Head(objs)), Tail(objs))

\* cameras.main before setupCameraFollow(): no target, no deadzone.
NoFollow == [follow |-> None, smoothing |-> None, offset |-> None, deadzone |-> None]

\* The body of the forEach of setupCameraFollow() for one object:
\* startFollow(sprite, true, smoothing, smoothing), setDeadzone when the
\* behavior has a deadzone, setFollowOffset(offsetX, offsetY).
FollowOne(cam, sprites, obj) ==
  LET cb == Find(obj.behaviors, "camera")
  IN  IF Enabled(cb) /\ \E k \in DOMAIN sprites : sprites[k].objectId = obj.id
      THEN [follow |-> Some(obj.id),
            smoothing |-> Some(cb.smoothing),
            offset |-> Some(<<cb.offsetX, cb.offsetY>>),
            deadzone |-> IF cb.deadzone # None THEN cb.deadzone ELSE cam.deadzone]
      ELSE cam

\* setupCameraFollow(): objects.forEach(...)
RECURSIVE SetupCameraFollow(_, _, _)
SetupCameraFollow(cam, sprites, objs) ==
  IF objs = <<>> THEN cam
  ELSE SetupCameraFollow(FollowOne(cam, sprites, Head(objs)), sprites, Tail(objs))

\* create(): the scene is built in one synchronous call.
Create ==
  /\ pc = "boot"
  /\ LET st == CreateAll(EmptyScene, objects)
     IN  /\ objectSprites' = st.objectSprites
         /\ gravityZones' = st.gravityZones
         /\ controlledObjects' = st.controlledObjects
         /\ colliders' = st.colliders
         /\ widgets' = st.widgets
         /\ camera' = SetupCameraFollow(camera, st.objectSprites, objects)
  /\ pc' = "ready"
  /\ airJumps' = [id \in {controlledObjects'[k].objectId : k \in DOMAIN controlledObjects'}
                    |-> -1]
  /\ UNCHANGED <<objects, virtualController, keysDown, justDown, touchingDown,
                 steps, ticks, pointerOn, tap, padOn>>
  /\ UNCHANGED hostVars

\* ------------------------------------------- input scenes and their bounds
\* The on-screen controller.
Pad == Obj("pad", "controller", Positions[1], None, <<>>)

Player(id, pos, controls) ==
  Obj(id, "player", pos, None, <<PhysicsB(TRUE, 1), controls>>)

\* The scenes of the input specification: the on-screen controller with a
\* controlled player in each vertical mode (allowVerticalMovement unset,
\* true and false), with and without double jump, and one scene with a
\* top-down and a platformer player side by side.
PlayScenes ==
  { <<Pad, Player("p", Positions[2], ControlsB(TRUE, av, dj))>> :
      av \in {None, Some(TRUE), Some(FALSE)}, dj \in BOOLEAN }
  \cup { <<Pad, Player("p", Positions[2], ControlsB(TRUE, None, FALSE)),
            Player("q", Positions[3], ControlsB(TRUE, Some(FALSE), FALSE))>> }

\* The scene of the jump specification: a platformer player with double jump.
JumpScenes ==
  { <<Player("j", Positions[2], ControlsB(TRUE, Some(FALSE), TRUE))>> }

\* A second on-screen controller.
Pad2 == Obj("pad2", "controller", Positions[3], None, <<>>)

\* The scenes with two controllers: a top-down player, or a platformer.
PadScenes ==
  { <<Pad, Pad2, Player("p", Positions[2], ControlsB(TRUE, av, FALSE))>> :
      av \in {None, Some(FALSE)} }

\* Frames simulated, by scene.
TickLimit == IF objects \in JumpScenes THEN MaxFlightTicks ELSE MaxTicks

\* Input sources held down at once, by scene.
HeldLimit == IF objects \in PlayScenes THEN MaxPressed ELSE MaxHeld

\* ------------------------------------------------------------- the frame
\* The sprite registered under an object id.
SpriteIndex(sprites, id) == CHOOSE k \in DOMAIN sprites : sprites[k].objectId = id

\* Whether the arcade world step has anything to integrate for a body.
Moving(sprite) ==
  \/ sprite.vx # 0 \/ sprite.vy # 0
  \/ sprite.ax # 0 \/ sprite.ay # 0
  \/ (sprite.allowGravity /\ sprite.gravityY # 0)

\* The controlled sprites in platformer mode, whose ground contact is read.
PlatformerIds ==
  {controlledObjects[k].objectId : k \in
     {j \in DOMAIN controlledObjects :
        controlledObjects[j].params.allowVerticalMovement = Some(FALSE)}}

\* The arcade physics world step that precedes update() in every frame: a
\* body gains velocity from its acceleration and gravity, and a body in
\* motion is displaced (by integration, collision separation or the world
\* bounds) to any position; ground contact is whatever the step found.
WorldStep ==
  /\ pc = "ready"
  /\ ticks < TickLimit
  /\ \E place \in [DOMAIN objectSprites -> PositionSet] :
       /\ \A k \in DOMAIN objectSprites :
            ~ Moving(objectSprites[k]) =>
               place[k] = <<objectSprites[k].x, objectSprites[k].y>>
       /\ objectSprites' =
            [k \in DOMAIN objectSprites |->
               LET sp == objectSprites[k]
                   sped == [sp EXCEPT
                              !.vx = @ + sp.ax,
                              !.vy = @ + sp.ay
                                       + (IF sp.allowGravity THEN sp.gravityY ELSE 0)]
               IN  IF Moving(sp)
                   THEN [sped EXCEPT !.x = place[k][1], !.y = place[k][2]]
                   ELSE sp]
  /\ touchingDown' \in SUBSET PlatformerIds
  /\ airJumps' = [id \in DOMAIN airJumps |->
                    IF id \in touchingDown' THEN -1
                    ELSE IF id \in touchingDown THEN 0
                    ELSE airJumps[id]]
  /\ tap' = IF tap[1] = "off" THEN tap
            ELSE IF tap[1] = "tapped" THEN <<"seen", tap[2]>>
            ELSE <<"none">>
  /\ ticks' = ticks + 1
  /\ steps' = <<>>
  /\ pc' = "labels"
  /\ UNCHANGED <<objects, gravityZones, controlledObjects, colliders, widgets,
                 virtualController, keysDown, justDown, pointerOn>>
  /\ UNCHANGED <<camera, padOn, hostVars>>

\* A faulty variant of StepAfter that pins the Fixed sprites before the force step.
StepAfterPinFirst(step) ==
  CASE step = "labels" -> "pin"
    [] step = "pin" -> "force"
    [] step = "force" -> "controls"
    [] step = "controls" -> "ready"

\* The statement order of update(): what runs after each of its four loops.
StepAfter(step) ==
  CASE step = "labels" -> "force"
    [] step = "force" -> "pin"
    [] step = "pin" -> "controls"
    [] step = "controls" -> "ready"

\* update(), first loop: text.setPosition(sprite.x, sprite.y) for every zone.
UpdateLabels ==
  /\ pc = "labels"
  /\ gravityZones' =
       [k \in DOMAIN gravityZones |->
          LET sp == objectSprites[SpriteIndex(objectSprites, gravityZones[k].objectId)]
          IN  [gravityZones[k] EXCEPT !.text.x = sp.x, !.text.y = sp.y]]
  /\ steps' = Append(steps, "labels")
  /\ pc' = StepAfter("labels")
  /\ UNCHANGED <<objects, objectSprites, controlledObjects, colliders, widgets,
                 virtualController, keysDown, justDown, touchingDown, ticks,
                 airJumps, pointerOn, tap>>
  /\ UNCHANGED <<camera, padOn, hostVars>>

\* gravityData.properties?.gravityStrength !== undefined ? ... : 500
GravityStrength(data) ==
  IF data.gravityStrength = None THEN DefaultGravityStrength
  ELSE data.gravityStrength[1]

\* finalGravityStrength: an enabled Gravity behavior takes precedence.
FinalGravityStrength(data) ==
  LET gb == Find(data.behaviors, "gravity")
  IN  IF Enabled(gb) THEN NumOr(gb.strength, GravityStrength(data))
      ELSE GravityStrength(data)

\* maxPullDistance
MaxPullDistance(data) ==
  LET gb == Find(data.behaviors, "gravity")
  IN  IF Enabled(gb) THEN NumOr(gb.maxDistance, DefaultMaxDistance)
      ELSE DefaultMaxDistance

\* A faulty variant of SkippedByForce that forgets the Physics check.
SkippedByForceNoPhysicsCheck(sprite) ==
  LET data == sprite.data
      ob == Find(data.behaviors, "oblique")
  IN  \/ data.type \in {"gravity", "boundary", "controller"}
      \/ IsTrue(sprite.isFixed)
      \/ SomeEnabled(data.behaviors, "fixed")
      \/ (Enabled(ob) /\ ob.isStatic)

\* The early returns of the inner loop of the force step: the sprites the
\* pull leaves alone.
SkippedByForce(sprite) ==
  LET data == sprite.data
      ob == Find(data.behaviors, "oblique")
  IN  \/ data.type \in {"gravity", "boundary", "controller"}
      \/ IsTrue(sprite.isFixed)
      \/ SomeEnabled(data.behaviors, "fixed")
      \/ (Enabled(ob) /\ ob.isStatic)
      \/ ~ Enabled(Find(data.behaviors, "physics"))

\* The reset branch: is the sprite closer than maxPull (the range of the
\* zone being processed) to any gravity zone?
InRangeOfAnyZone(sprites, sprite, maxPull) ==
  \E k \in DOMAIN gravityZones :
    LET other == sprites[SpriteIndex(sprites, gravityZones[k].objectId)]
    IN  Distance(other.x - sprite.x, other.y - sprite.y) < maxPull

\* The body of the inner loop: what one zone does to one sprite.
PullOne(sprites, zone, sprite) ==
  LET center == sprites[SpriteIndex(sprites, zone.objectId)]
      strength == FinalGravityStrength(zone.data)
      maxPull == MaxPullDistance(zone.data)
      dx == center.x - sprite.x
      dy == center.y - sprite.y
      distance == Distance(dx, dy)
      pullStrength == Quot(strength * PullFactor, distance * distance)
  IN  IF SkippedByForce(sprite) THEN sprite
      ELSE IF distance > 0 /\ distance < maxPull
      THEN [sprite EXCEPT !.ax = Quot(dx * pullStrength, distance),
                          !.ay = Quot(dy * pullStrength, distance)]
      ELSE IF distance >= maxPull /\ ~ InRangeOfAnyZone(sprites, sprite, maxPull)
      THEN [sprite EXCEPT !.ax = 0, !.ay = 0]
      ELSE sprite

\* this.gravityZones.forEach(zone => this.objectSprites.forEach(...))
RECURSIVE PullAll(_, _)
PullAll(sprites, zones) ==
  IF zones = <<>> THEN sprites
  ELSE PullAll([k \in DOMAIN sprites |-> PullOne(sprites, Head(zones), sprites[k])],
               Tail(zones))

\* update(), second loop: the magnetic pull of every zone on every sprite.
ForceStep ==
  /\ pc = "force"
  /\ objectSprites' = PullAll(objectSprites, gravityZones)
  /\ steps' = Append(steps, "force")
  /\ pc' = StepAfter("force")
  /\ UNCHANGED <<objects, gravityZones, controlledObjects, colliders, widgets,
                 virtualController, keysDown, justDown, touchingDown, ticks,
                 airJumps, pointerOn, tap>>
  /\ UNCHANGED <<camera, padOn, hostVars>>

\* A faulty variant of PinSprite that pins nothing.
PinSpriteNever(sprite) == sprite

\* if (sprite.getData('isFixed')) sprite.setPosition(fixedX, fixedY)
PinSprite(sprite) ==
  IF IsTrue(sprite.isFixed)
  THEN [sprite EXCEPT !.x = sprite.fixedX[1], !.y = sprite.fixedY[1]]
  ELSE sprite

\* update(), third loop: every Fixed sprite goes back to its screen position.
PinFixed ==
  /\ pc = "pin"
  /\ objectSprites' = [k \in DOMAIN objectSprites |-> PinSprite(objectSprites[k])]
  /\ steps' = Append(steps, "pin")
  /\ pc' = StepAfter("pin")
  /\ UNCHANGED <<objects, gravityZones, controlledObjects, colliders, widgets,
                 virtualController, keysDown, justDown, touchingDown, ticks,
                 airJumps, pointerOn, tap>>
  /\ UNCHANGED <<camera, padOn, hostVars>>

\* A faulty variant of Pressed that does not read the WASD and Space keys.
PressedWithoutWasd ==
  [left |-> "cursors.left" \in keysDown \/ virtualController.left,
   right |-> "cursors.right" \in keysDown \/ virtualController.right,
   up |-> "cursors.up" \in keysDown \/ virtualController.up,
   down |-> "cursors.down" \in keysDown \/ virtualController.down,
   jump |-> virtualController.jump]

\* The resolved actions of one tick: keyboard OR virtual controller.
Pressed ==
  [left |-> "cursors.left" \in keysDown \/ "wasd.left" \in keysDown
              \/ virtualController.left,
   right |-> "cursors.right" \in keysDown \/ "wasd.right" \in keysDown
              \/ virtualController.right,
   up |-> "cursors.up" \in keysDown \/ "wasd.up" \in keysDown
              \/ virtualController.up,
   down |-> "cursors.down" \in keysDown \/ "wasd.down" \in keysDown
              \/ virtualController.down,
   jump |-> "wasd.space" \in keysDown \/ virtualController.jump]

\* jumpKey = this.cursors?.up || this.wasdKeys?.up || this.wasdKeys?.space:
\* a Key object is truthy, so the first one is taken.
JumpKey == "cursors.up"

\* A faulty variant of ControlOne that takes an unset allowVerticalMovement for
\* platformer mode.
ControlOneUnsetIsPlatformer(st, control, pressed) ==
  LET k == SpriteIndex(st.sprites, control.objectId)
      sp == st.sprites[k]
      params == control.params
      vx == IF pressed.left THEN - params.moveSpeed
            ELSE IF pressed.right THEN params.moveSpeed ELSE 0
      allowVertical == params.allowVerticalMovement = Some(TRUE)
      isOnGround == control.objectId \in touchingDown
      jumps == (pressed.up \/ pressed.jump) /\ isOnGround
      asksDouble == params.canDoubleJump /\ ~ isOnGround
      doubles == asksDouble /\ JumpKey \in st.justDown
      vy == IF allowVertical
            THEN (IF pressed.up THEN - params.moveSpeed
                  ELSE IF pressed.down THEN params.moveSpeed ELSE 0)
            ELSE IF doubles THEN - ((params.jumpPower * 8) \div 10)
            ELSE IF jumps THEN - params.jumpPower
            ELSE sp.vy
  IN  [sprites |-> [st.sprites EXCEPT ![k] = [sp EXCEPT !.vx = vx, !.vy = vy]],
       justDown |-> IF ~ allowVertical /\ doubles THEN st.justDown \ {JumpKey}
                    ELSE st.justDown,
       doubled |-> IF ~ allowVertical /\ doubles
                   THEN st.doubled \cup {control.objectId} ELSE st.doubled]

\* A faulty variant of ControlOne that jumps without testing ground contact.
ControlOneNoGroundCheck(st, control, pressed) ==
  LET k == SpriteIndex(st.sprites, control.objectId)
      sp == st.sprites[k]
      params == control.params
      vx == IF pressed.left THEN - params.moveSpeed
            ELSE IF pressed.right THEN params.moveSpeed ELSE 0
      allowVertical == params.allowVerticalMovement # Some(FALSE)
      isOnGround == control.objectId \in touchingDown
      jumps == pressed.up \/ pressed.jump
      asksDouble == params.canDoubleJump /\ ~ isOnGround
      doubles == asksDouble /\ JumpKey \in st.justDown
      vy == IF allowVertical
            THEN (IF pressed.up THEN - params.moveSpeed
                  ELSE IF pressed.down THEN params.moveSpeed ELSE 0)
            ELSE IF doubles THEN - ((params.jumpPower * 8) \div 10)
            ELSE IF jumps THEN - params.jumpPower
            ELSE sp.vy
  IN  [sprites |-> [st.sprites EXCEPT ![k] = [sp EXCEPT !.vx = vx, !.vy = vy]],
       justDown |-> IF ~ allowVertical /\ doubles THEN st.justDown \ {JumpKey}
                    ELSE st.justDown,
       doubled |-> IF ~ allowVertical /\ doubles
                   THEN st.doubled \cup {control.objectId} ELSE st.doubled]

\* The body of the controls loop for one controlled object; st carries the
\* sprites and the _justDown flags, which JustDown() consumes.
ControlOne(st, control, pressed) ==
  LET k == SpriteIndex(st.sprites, control.objectId)
      sp == st.sprites[k]
      params == control.params
      vx == IF pressed.left THEN - params.moveSpeed
            ELSE IF pressed.right THEN params.moveSpeed ELSE 0
      allowVertical == params.allowVerticalMovement # Some(FALSE)
      isOnGround == control.objectId \in touchingDown
      jumps == (pressed.up \/ pressed.jump) /\ isOnGround
      asksDouble == params.canDoubleJump /\ ~ isOnGround
      doubles == asksDouble /\ JumpKey \in st.justDown
      vy == IF allowVertical
            THEN (IF pressed.up THEN - params.moveSpeed
                  ELSE IF pressed.down THEN params.moveSpeed ELSE 0)
            ELSE IF doubles THEN - ((params.jumpPower * 8) \div 10)
            ELSE IF jumps THEN - params.jumpPower
            ELSE sp.vy
  IN  [sprites |-> [st.sprites EXCEPT ![k] = [sp EXCEPT !.vx = vx, !.vy = vy]],
       justDown |-> IF ~ allowVertical /\ doubles THEN st.justDown \ {JumpKey}
                    ELSE st.justDown,
       doubled |-> IF ~ allowVertical /\ doubles
                   THEN st.doubled \cup {control.objectId} ELSE st.doubled]

\* this.controlledObjects.forEach(...)
RECURSIVE ControlAll(_, _, _)
ControlAll(st, controls, pressed) ==
  IF controls = <<>> THEN st
  ELSE ControlAll(ControlOne(st, Head(controls), pressed), Tail(controls), pressed)

\* A faulty variant of ControlsStep that clears the signals it has read.
ControlsStepClearsSignals ==
  /\ pc = "controls"
  /\ LET st == ControlAll([sprites |-> objectSprites, justDown |-> justDown,
                           doubled |-> {}],
                          controlledObjects, Pressed)
     IN  /\ objectSprites' = st.sprites
         /\ justDown' = st.justDown
         /\ airJumps' = [id \in DOMAIN airJumps |->
                           IF id \in st.doubled /\ airJumps[id] >= 0
                           THEN airJumps[id] + 1 ELSE airJumps[id]]
  /\ virtualController' = [b \in DOMAIN virtualController |-> FALSE]
  /\ steps' = Append(steps, "controls")
  /\ pc' = StepAfter("controls")
  /\ UNCHANGED <<objects, gravityZones, controlledObjects, colliders, widgets,
                 keysDown, touchingDown, ticks, pointerOn, tap>>
  /\ UNCHANGED <<camera, padOn, hostVars>>

\* update(), fourth loop: input is resolved and applied to every controlled
\* object; update() returns.
ControlsStep ==
  /\ pc = "controls"
  /\ LET st == ControlAll([sprites |-> objectSprites, justDown |-> justDown,
                           doubled |-> {}],
                          controlledObjects, Pressed)
     IN  /\ objectSprites' = st.sprites
         /\ justDown' = st.justDown
         /\ airJumps' = [id \in DOMAIN airJumps |->
                           IF id \in st.doubled /\ airJumps[id] >= 0
                           THEN airJumps[id] + 1 ELSE airJumps[id]]
  /\ steps' = Append(steps, "controls")
  /\ pc' = StepAfter("controls")
  /\ UNCHANGED <<objects, gravityZones, controlledObjects, colliders, widgets,
                 virtualController, keysDown, touchingDown, ticks, pointerOn, tap>>
  /\ UNCHANGED <<camera, padOn, hostVars>>

\* ------------------------------------------------------------------ input
Keys ==
  {"cursors.left", "cursors.right", "cursors.up", "cursors.down",
   "wasd.left", "wasd.right", "wasd.up", "wasd.down", "wasd.space"}

Buttons == {"up", "down", "left", "right", "jump"}

\* The input sources held down: keys and virtual-controller signals.
Held == Cardinality(keysDown) + Cardinality({b \in Buttons : virtualController[b]})

\* A keydown event of the browser, between two frames: the key is down and
\* its _justDown flag is set until JustDown() reads it or the key goes up.
KeyDown(key) ==
  /\ pc = "ready"
  /\ key \notin keysDown
  /\ Held < HeldLimit
  /\ keysDown' = keysDown \cup {key}
  /\ justDown' = justDown \cup {key}
  /\ UNCHANGED <<objects, objectSprites, gravityZones, controlledObjects, colliders,
                 widgets, virtualController, touchingDown, pc, steps, ticks,
                 airJumps, pointerOn, tap>>
  /\ UNCHANGED <<camera, padOn, hostVars>>

\* A keyup event of the browser.
KeyUp(key) ==
  /\ pc = "ready"
  /\ key \in keysDown
  /\ keysDown' = keysDown \ {key}
  /\ justDown' = justDown \ {key}
  /\ UNCHANGED <<objects, objectSprites, gravityZones, controlledObjects, colliders,
                 widgets, virtualController, touchingDown, pc, steps, ticks,
                 airJumps, pointerOn, tap>>
  /\ UNCHANGED <<camera, padOn, hostVars>>

\* bg.on('pointerdown'): this.virtualController[direction] = true
PointerDown(button) ==
  /\ pc = "ready"
  /\ widgets # <<>>
  /\ virtualController[button] \/ Held < HeldLimit
  /\ virtualController' = [virtualController EXCEPT ![button] = TRUE]
  /\ pointerOn' = pointerOn \cup {button}
  /\ tap' = IF tap[1] = "off" THEN tap ELSE <<"down", button>>
  /\ UNCHANGED <<objects, objectSprites, gravityZones, controlledObjects, colliders,
                 widgets, keysDown, justDown, touchingDown, pc, steps, ticks,
                 airJumps>>
  /\ UNCHANGED <<camera, padOn, hostVars>>

\* bg.on('pointerup'): this.virtualController[direction] = false
PointerUp(button) ==
  /\ pc = "ready"
  /\ widgets # <<>>
  /\ virtualController' = [virtualController EXCEPT ![button] = FALSE]
  /\ pointerOn' = pointerOn \ {button}
  /\ tap' = IF tap = <<"down", button>> THEN <<"tapped", button>> ELSE tap
  /\ UNCHANGED <<objects, objectSprites, gravityZones, controlledObjects, colliders,
                 widgets, keysDown, justDown, touchingDown, pc, steps, ticks,
                 airJumps>>
  /\ UNCHANGED <<camera, padOn, hostVars>>

\* A faulty variant of PointerOut that leaves the signal as it is.
PointerOutKeepsSignal(button) ==
  /\ pc = "ready"
  /\ widgets # <<>>
  /\ pointerOn' = pointerOn \ {button}
  /\ tap' = IF tap = <<"down", button>> THEN <<"tapped", button>> ELSE tap
  /\ UNCHANGED <<objects, objectSprites, gravityZones, controlledObjects, colliders,
                 widgets, virtualController, keysDown, justDown, touchingDown, pc,
                 steps, ticks, airJumps>>
  /\ UNCHANGED <<camera, padOn, hostVars>>

\* bg.on('pointerout'): this.virtualController[direction] = false
PointerOut(button) ==
  /\ pc = "ready"
  /\ widgets # <<>>
  /\ virtualController' = [virtualController EXCEPT ![button] = FALSE]
  /\ pointerOn' = pointerOn \ {button}
  /\ tap' = IF tap = <<"down", button>> THEN <<"tapped", button>> ELSE tap
  /\ UNCHANGED <<objects, objectSprites, gravityZones, controlledObjects, colliders,
                 widgets, keysDown, justDown, touchingDown, pc, steps, ticks,
                 airJumps>>
  /\ UNCHANGED <<camera, padOn, hostVars>>

\* The controllers whose buttons were built, as a set.
WidgetIds == {widgets[k] : k \in DOMAIN widgets}

\* The pointerdown handler of one button of one controller, with a pointer
\* that is free to press it.
PadDown(widget, button) ==
  /\ pc = "ready"
  /\ widget \in WidgetIds
  /\ <<widget, button>> \notin padOn
  /\ Cardinality(padOn) < MaxPressed
  /\ virtualController' = [virtualController EXCEPT ![button] = TRUE]
  /\ padOn' = padOn \cup {<<widget, button>>}
  /\ pointerOn' = pointerOn \cup {button}
  /\ UNCHANGED <<objects, objectSprites, gravityZones, controlledObjects, colliders,
                 widgets, keysDown, justDown, touchingDown, pc, steps, ticks,
                 airJumps, tap, camera, hostVars>>

\* The pointerup handler of one button of one controller.
PadUp(widget, button) ==
  /\ pc = "ready"
  /\ <<widget, button>> \in padOn
  /\ virtualController' = [virtualController EXCEPT ![button] = FALSE]
  /\ padOn' = padOn \ {<<widget, button>>}
  /\ pointerOn' = {b \in Buttons : \E w \in WidgetIds : <<w, b>> \in padOn'}
  /\ UNCHANGED <<objects, objectSprites, gravityZones, controlledObjects, colliders,
                 widgets, keysDown, justDown, touchingDown, pc, steps, ticks,
                 airJumps, tap, camera, hostVars>>

\* The pointerout handler of one button of one controller.
PadOut(widget, button) ==
  /\ pc = "ready"
  /\ <<widget, button>> \in padOn
  /\ virtualController' = [virtualController EXCEPT ![button] = FALSE]
  /\ padOn' = padOn \ {<<widget, button>>}
  /\ pointerOn' = {b \in Buttons : \E w \in WidgetIds : <<w, b>> \in padOn'}
  /\ UNCHANGED <<objects, objectSprites, gravityZones, controlledObjects, colliders,
                 widgets, keysDown, justDown, touchingDown, pc, steps, ticks,
                 airJumps, tap, camera, hostVars>>

\* ------------------------------------------------------------- the host
\* The project values the host passes: a version (a new object identity for
\* the effect's dependency list) and whether project.scenes[0] exists.
Projects == [version : 1..2, hasScene : BOOLEAN]

\* The effect body for project p: the guard, then
\* gameRef.current = new Phaser.Game(config).
\* before is the state the preceding cleanup left.
RunEffect(p, before) ==
  IF p.hasScene
  THEN /\ gamesCreated' = gamesCreated + 1
       /\ games' = before.games \cup {[id |-> gamesCreated + 1, pendingDestroy |-> FALSE]}
       /\ gameRef' = Some(gamesCreated + 1)
  ELSE /\ gamesCreated' = gamesCreated
       /\ games' = before.games
       /\ gameRef' = before.gameRef

\* The cleanup the effect returned: gameRef.current.destroy(true) flags the
\* game for destruction at its next step (Phaser 3: Game.destroy sets
\* pendingDestroy), and gameRef.current = null.  An effect that returned at
\* its guard left gameRef.current null and registered no cleanup.
Cleanup ==
  IF gameRef # None
  THEN [games |-> {IF g.id = gameRef[1] THEN [g EXCEPT !.pendingDestroy = TRUE] ELSE g :
                     g \in games},
        gameRef |-> None]
  ELSE [games |-> games, gameRef |-> gameRef]

\* The host starts play mode: PhaserRuntime mounts and its effect runs.
Mount(p) ==
  /\ ~ mounted
  /\ p.hasScene => gamesCreated < MaxGames
  /\ mounted' = TRUE
  /\ project' = p
  /\ RunEffect(p, [games |-> games, gameRef |-> gameRef])
  /\ UNCHANGED sceneVars

\* The project prop changes while playing: the cleanup of the previous
\* effect runs, then the effect runs again, in one commit.
ProjectChange(p) ==
  /\ mounted
  /\ p # project
  /\ p.hasScene => gamesCreated < MaxGames
  /\ project' = p
  /\ RunEffect(p, Cleanup)
  /\ UNCHANGED <<mounted, sceneVars>>

\* The stop button: the host unmounts PhaserRuntime and the cleanup runs.
Stop ==
  /\ mounted
  /\ mounted' = FALSE
  /\ games' = Cleanup.games
  /\ gameRef' = Cleanup.gameRef
  /\ UNCHANGED <<project, gamesCreated, sceneVars>>

\* The next step of a game flagged for destruction: runDestroy() removes its
\* scenes, listeners and canvas in one call.
GameStep(id) ==
  /\ \E g \in games : g.id = id /\ g.pendingDestroy
  /\ games' = {g \in games : g.id # id}
  /\ UNCHANGED <<mounted, project, gameRef, gamesCreated, sceneVars>>

\* The host state of a runtime that has been started once.
Playing ==
  /\ mounted = TRUE
  /\ project = [version |-> 1, hasScene |-> TRUE]
  /\ gameRef = Some(1)
  /\ games = {[id |-> 1, pendingDestroy |-> FALSE]}
  /\ gamesCreated = 1

\* ---------------------------------------------------------- initial state
\* The state of a GameScene before create() has run.
InitRuntime ==
  /\ objectSprites = <<>>
  /\ gravityZones = <<>>
  /\ controlledObjects = <<>>
  /\ colliders = <<>>
  /\ widgets = <<>>
  /\ virtualController =
       [up |-> FALSE, down |-> FALSE, left |-> FALSE, right |-> FALSE, jump |-> FALSE]
  /\ keysDown = {}
  /\ justDown = {}
  /\ touchingDown = {}
  /\ pc = "boot"
  /\ steps = <<>>
  /\ ticks = 0
  /\ airJumps = <<>>
  /\ pointerOn = {}
  /\ camera = NoFollow
  /\ padOn = {}

ObjectIds == <<"o1", "o2", "o3", "o4">>

PositionOf(i) == Positions[((i - 1) % Len(Positions)) + 1]

Kind(type, gravityStrength, behaviors) ==
  [type |-> type, gravityStrength |-> gravityStrength, behaviors |-> behaviors]

\* The objects the scene-build specification draws its scenes from: every
\* type that is treated specially, a type the editor does not know (turret),
\* oblique tags of both groups and both
\* onlyCollideWithOblique values, Physics with and without Controls in
\* every vertical mode, and objects with a repeated behavior type.
BuildKinds ==
  { Kind("platform", None, <<>>),
    Kind("enemy", None, <<PhysicsB(TRUE, 1)>>),
    Kind("sprite", None, <<PhysicsB(FALSE, 1)>>),
    Kind("gravity", None, <<>>),
    Kind("boundary", None, <<PhysicsB(TRUE, 1)>>),
    Kind("controller", None, <<>>),
    Kind("turret", None, <<PhysicsB(TRUE, 1)>>),
    Kind("platform", None, <<ObliqueB(TRUE, TRUE, "oneway", FALSE)>>),
    Kind("platform", None,
         <<PhysicsB(TRUE, 1), ObliqueB(FALSE, FALSE, "bullet", TRUE),
           ObliqueB(TRUE, FALSE, "bullet", TRUE)>>) }
  \cup { Kind("platform", None, <<PhysicsB(TRUE, 1), ObliqueB(en, FALSE, g, only)>>) :
           en \in BOOLEAN, g \in {"bullet", "Bullet"}, only \in BOOLEAN }
  \cup { Kind("player", None, <<PhysicsB(pe, 2), ControlsB(ce, av, FALSE)>>) :
           pe \in BOOLEAN, ce \in BOOLEAN, av \in {None, Some(TRUE), Some(FALSE)} }

Instantiate(kinds) ==
  [i \in DOMAIN kinds |->
     Obj(ObjectIds[i], kinds[i].type, PositionOf(i), kinds[i].gravityStrength,
         kinds[i].behaviors)]

\* The scenes of the tick specification.  Zone A is a plain gravity zone
\* (strength 500, range 800) at the first position; zone B repels with a
\* Gravity behavior of strength -500 and range 300 at the third position;
\* the target is authored at the second position, 500 away from both.
ZoneA == Obj("zA", "gravity", Positions[1], None, <<>>)

ZoneB == Obj("zB", "gravity", Positions[3], None, <<GravityB(TRUE, -500, 300)>>)

\* Zone C repels like zone B, with a range of 1500 that covers every position.
ZoneC == Obj("zC", "gravity", Positions[3], None, <<GravityB(TRUE, -500, 1500)>>)

\* The targets: one for each reason the force step has to skip a sprite,
\* free and controlled bodies in both vertical modes, Fixed bodies with and
\* without Controls, and objects with a repeated behavior type.
TargetKinds ==
  { Kind("enemy", None, <<PhysicsB(TRUE, 1)>>),
    Kind("platform", None, <<>>),
    Kind("sprite", None, <<PhysicsB(FALSE, 1)>>),
    Kind("boundary", None, <<PhysicsB(TRUE, 1)>>),
    Kind("player", None, <<PhysicsB(TRUE, 1), FixedB(TRUE, Positions[3])>>),
    Kind("platform", None, <<PhysicsB(TRUE, 1), ObliqueB(TRUE, TRUE, "wall", FALSE)>>),
    Kind("enemy", None, <<PhysicsB(TRUE, 1), ObliqueB(TRUE, FALSE, "wall", FALSE)>>),
    Kind("player", None, <<PhysicsB(TRUE, 1), ControlsB(TRUE, None, FALSE)>>),
    Kind("player", None, <<PhysicsB(TRUE, 1), ControlsB(TRUE, Some(FALSE), TRUE)>>),
    Kind("player", None,
         <<PhysicsB(TRUE, 1), ControlsB(TRUE, None, FALSE), FixedB(TRUE, Positions[3])>>),
    Kind("player", None, <<ControlsB(TRUE, None, FALSE)>>),
    Kind("player", None,
         <<PhysicsB(TRUE, 1), FixedB(FALSE, Positions[3]), FixedB(TRUE, Positions[1])>>),
    Kind("platform", None,
         <<PhysicsB(TRUE, 1), ObliqueB(FALSE, TRUE, "wall", FALSE),
           ObliqueB(TRUE, TRUE, "wall", FALSE)>>) }

Target(kind) == Obj("t", kind.type, Positions[2], kind.gravityStrength, kind.behaviors)

\* The scene orders: the zones before and after the target and in both
\* registration orders, and scenes with the on-screen controller.
TickScenes ==
  UNION { { <<ZoneA, ZoneB, Target(k)>>, <<ZoneB, ZoneA, Target(k)>>,
            <<ZoneA, ZoneC, Target(k)>>, <<Target(k), ZoneA>>,
            <<Pad, ZoneC, Target(k)>> } : k \in TargetKinds }

Init ==
  /\ objects \in TickScenes
  /\ InitRuntime
  /\ tap = <<"off">>
  /\ Playing

Next ==
  \/ Create
  \/ WorldStep
  \/ UpdateLabels
  \/ ForceStep
  \/ PinFixed
  \/ ControlsStep
  \/ \E key \in Keys : KeyDown(key)
  \/ \E key \in Keys : KeyUp(key)
  \/ \E button \in Buttons : PointerDown(button)
  \/ \E button \in Buttons : PointerUp(button)
  \/ \E button \in Buttons : PointerOut(button)

\* The running game: scene build, then frames and input events.
Spec == Init /\ [][Next]_vars

InitBuild ==
  /\ \E n \in 1..MaxObjects : \E kinds \in [1..n -> BuildKinds] :
       objects = Instantiate(kinds)
  /\ InitRuntime
  /\ tap = <<"off">>
  /\ Playing

NextBuild == Create

\* Scene build alone, over every scene of at most MaxObjects objects.
SpecBuild == InitBuild /\ [][NextBuild]_vars

\* ------------------------------------------------------- camera scenes
\* The objects of the camera specification: a player without a Camera
\* behavior, a controller with one (it has no sprite to follow), players
\* with a repeated Camera behavior, and players with one Camera behavior,
\* enabled or not, of smoothing 0.1 or 0.5, with and without a follow offset
\* and with no deadzone or one of two deadzones.
CameraKinds ==
  { Kind("player", None, <<PhysicsB(TRUE, 1)>>),
    Kind("controller", None, <<CameraB(TRUE, 10, <<0, 0>>, Some(<<100, 100>>))>>),
    Kind("player", None,
         <<CameraB(FALSE, 10, <<0, 0>>, Some(<<100, 100>>)),
           CameraB(TRUE, 50, <<50, -20>>, Some(<<200, 50>>))>>) }
  \cup { Kind("player", None, <<PhysicsB(TRUE, 1), CameraB(en, sm, off, dz)>>) :
           en \in BOOLEAN, sm \in {10, 50}, off \in {<<0, 0>>, <<50, -20>>},
           dz \in {None, Some(<<100, 100>>), Some(<<200, 50>>)} }

InitCamera ==
  /\ \E n \in 1..MaxObjects : \E kinds \in [1..n -> CameraKinds] :
       objects = Instantiate(kinds)
  /\ InitRuntime
  /\ tap = <<"off">>
  /\ Playing

NextCamera == Create

\* Scene build over the camera scenes of at most MaxObjects objects.
SpecCamera == InitCamera /\ [][NextCamera]_vars

\* ------------------------------------------------ force-field scenes
\* The gravity zones of the force-field specification, one at the first
\* position: every combination of the gravityStrength property (unset, 0,
\* -1000) with no Gravity behavior or with one, enabled or not, of strength
\* 0, 1000 or -500 and maxDistance 0, 600 or 1500.
ZoneKinds ==
  { Kind("gravity", gs, bs) :
      gs \in {None, Some(0), Some(-1000)},
      bs \in {<<>>} \cup { <<GravityB(en, s, m)>> :
                            en \in BOOLEAN, s \in {0, 1000, -500}, m \in {0, 600, 1500} } }

Zone(kind) == Obj("z", kind.type, Positions[1], kind.gravityStrength, kind.behaviors)

\* The targets of the force-field specification: a body with Physics, and
\* one whose oblique tag keeps it from colliding with the untagged zones.
ForceTargets ==
  { Kind("enemy", None, <<PhysicsB(TRUE, 1)>>),
    Kind("enemy", None, <<PhysicsB(TRUE, 1), ObliqueB(TRUE, FALSE, "ghost", TRUE)>>) }

\* One zone of every kind with a target, and the three zones A, B and C in
\* every registration order with a target (authored 500 away from each).
ForceScenes ==
  { <<Zone(z), Target(k)>> : z \in ZoneKinds, k \in ForceTargets }
  \cup UNION { { <<ZoneA, ZoneB, ZoneC, Target(k)>>, <<ZoneA, ZoneC, ZoneB, Target(k)>>,
                 <<ZoneB, ZoneA, ZoneC, Target(k)>>, <<ZoneB, ZoneC, ZoneA, Target(k)>>,
                 <<ZoneC, ZoneA, ZoneB, Target(k)>>, <<ZoneC, ZoneB, ZoneA, Target(k)>> } :
               k \in ForceTargets }

InitForce ==
  /\ objects \in ForceScenes
  /\ InitRuntime
  /\ tap = <<"off">>
  /\ Playing

NextForce ==
  \/ Create
  \/ WorldStep
  \/ UpdateLabels
  \/ ForceStep
  \/ PinFixed
  \/ ControlsStep

\* The force field at work: scene build, then frames without input.
SpecForce == InitForce /\ [][NextForce]_vars

\* ------------------------------------------------------ input and jumping
InitPlay ==
  /\ objects \in PlayScenes
  /\ InitRuntime
  /\ tap = <<"off">>
  /\ Playing

NextPlay ==
  \/ Create
  \/ WorldStep
  \/ UpdateLabels
  \/ ForceStep
  \/ PinFixed
  \/ ControlsStep
  \/ \E key \in Keys : KeyDown(key)
  \/ \E key \in Keys : KeyUp(key)

\* The game played with the keyboard, up to MaxPressed keys at once.
SpecPlay == InitPlay /\ [][NextPlay]_vars

InitPad ==
  /\ objects \in PlayScenes
  /\ InitRuntime
  /\ tap = <<"none">>
  /\ Playing

NextPad ==
  \/ Create
  \/ WorldStep
  \/ UpdateLabels
  \/ ForceStep
  \/ PinFixed
  \/ ControlsStep
  \/ \E button \in Buttons : PointerDown(button)
  \/ \E button \in Buttons : PointerUp(button)
  \/ \E button \in Buttons : PointerOut(button)

\* The game played with the on-screen controller, the pointer presses
\* observed.
SpecPad == InitPad /\ [][NextPad]_vars

InitPads ==
  /\ objects \in PadScenes
  /\ InitRuntime
  /\ tap = <<"off">>
  /\ Playing

NextPads ==
  \/ Create
  \/ WorldStep
  \/ UpdateLabels
  \/ ForceStep
  \/ PinFixed
  \/ ControlsStep
  \/ \E w \in {Pad.id, Pad2.id}, button \in Buttons : PadDown(w, button)
  \/ \E w \in {Pad.id, Pad2.id}, button \in Buttons : PadUp(w, button)
  \/ \E w \in {Pad.id, Pad2.id}, button \in Buttons : PadOut(w, button)

\* The game played with two on-screen controllers and up to MaxPressed
\* pointers.
SpecPads == InitPads /\ [][NextPads]_vars

\* The keys update() passes to JustDown() or reads as jump input.
JumpKeys == {"cursors.up", "wasd.space"}

InitJump ==
  /\ objects \in JumpScenes
  /\ InitRuntime
  /\ tap = <<"off">>
  /\ Playing

NextJump ==
  \/ Create
  \/ WorldStep
  \/ UpdateLabels
  \/ ForceStep
  \/ PinFixed
  \/ ControlsStep
  \/ \E key \in JumpKeys : KeyDown(key)
  \/ \E key \in JumpKeys : KeyUp(key)

\* A platformer player jumping with the keyboard.
SpecJump == InitJump /\ [][NextJump]_vars

\* -------------------------------------------------------------- lifecycle
InitHost ==
  /\ objects = <<>>
  /\ InitRuntime
  /\ tap = <<"off">>
  /\ mounted = FALSE
  /\ project \in Projects
  /\ gameRef = None
  /\ games = {}
  /\ gamesCreated = 0

NextHost ==
  \/ \E p \in Projects : Mount(p)
  \/ \E p \in Projects : ProjectChange(p)
  \/ Stop
  \/ \E id \in 1..MaxGames : GameStep(id)

\* The host starting, re-configuring and stopping the runtime.
SpecHost == InitHost /\ [][NextHost]_vars

\* --------------------------------------------------- scene-build properties
Built == pc # "boot"

\* The objects that became entities (a controller becomes a widget).
Entities == {i \in DOMAIN objects : objects[i].type # "controller"}

\* The oblique tag of an object: its Oblique behavior, when enabled.
Tagged(i) == Enabled(Find(objects[i].behaviors, "oblique"))

TagOf(i) == Find(objects[i].behaviors, "oblique")

HasPhysics(i) == Enabled(Find(objects[i].behaviors, "physics"))

\* A collider exists for the unordered pair of objects i and j.
Collide(i, j) ==
  \E k \in DOMAIN colliders :
    colliders[k] \in {<<objects[i].id, objects[j].id>>, <<objects[j].id, objects[i].id>>}

SpritePairs == {p \in Entities \X Entities : p[1] # p[2]}

\* C3: for every pair of entities that are both oblique-tagged, a collider
\* exists if and only if their obliqueGroup strings are equal (compared
\* case-sensitively), whatever onlyCollideWithOblique is on either side.
C3_BothTaggedCollideIffSameGroup ==
  Built =>
    \A p \in SpritePairs :
      (Tagged(p[1]) /\ Tagged(p[2])) =>
        (Collide(p[1], p[2]) <=>
           TagOf(p[1]).collisionGroup = TagOf(p[2]).collisionGroup)

\* Two tagged entities of one group with different onlyCollideWithOblique
\* collide, and two whose groups differ only in case do not.
C3_Witness ==
  /\ Built
  /\ \E p \in SpritePairs :
       /\ Tagged(p[1]) /\ Tagged(p[2])
       /\ TagOf(p[1]).collisionGroup = TagOf(p[2]).collisionGroup
       /\ TagOf(p[1]).onlyCollideWithOblique # TagOf(p[2]).onlyCollideWithOblique
       /\ Collide(p[1], p[2])

\* C4: a pair of one entity tagged with onlyCollideWithOblique = true and one
\* untagged entity has no collider, in either scene order.
C4_OnlyObliqueVsUntaggedPassThrough ==
  Built =>
    \A p \in SpritePairs :
      (Tagged(p[1]) /\ TagOf(p[1]).onlyCollideWithOblique /\ ~ Tagged(p[2]))
        => ~ Collide(p[1], p[2])

\* The untagged entity comes first in the scene and the tagged one second,
\* and there is no collider.
C4_Witness ==
  /\ Built
  /\ \E p \in SpritePairs :
       /\ p[2] < p[1]
       /\ Tagged(p[1]) /\ TagOf(p[1]).onlyCollideWithOblique /\ ~ Tagged(p[2])
       /\ ~ Collide(p[1], p[2])

C6_NoPhysicsNoCollider ==
  Built =>
    \A p \in SpritePairs : ~ HasPhysics(p[1]) => ~ Collide(p[1], p[2])

SpriteOf(i) ==
  LET idx == {k \in DOMAIN objectSprites : objectSprites[k].objectId = objects[i].id}
  IN  objectSprites[CHOOSE k \in idx : TRUE]

ControlsOf(i) == Find(objects[i].behaviors, "controls")

\* An enabled Controls behavior with vertical movement allowed (true or unset).
VerticalControls(i) ==
  Enabled(ControlsOf(i)) /\ ControlsOf(i).allowVerticalMovement # Some(FALSE)

C9_GravityScaleApplies ==
  Built =>
    \A i \in Entities :
      (HasPhysics(i) /\ ~ VerticalControls(i) /\ objects[i].type # "boundary") =>
        SpriteOf(i).gravityY =
          Find(objects[i].behaviors, "physics").gravityScale * GravityUnit

\* ---------------------------------------------------------- tick properties
FullTick == <<"labels", "force", "pin", "controls">>

IsPrefix(s, t) == Len(s) <= Len(t) /\ \A i \in DOMAIN s : s[i] = t[i]

\* update() has just returned.
TickDone == pc = "ready" /\ steps = FullTick

FixedOf(i) == Find(objects[i].behaviors, "fixed")

\* C1: in every tick the four steps run in the order labels, force field,
\* pin, controls, each for all entities before the next starts: the steps
\* run so far are a prefix of that order, update() returns only after all
\* four, every label is at its zone when the force step starts, and every
\* Fixed sprite is pinned when the controls step starts.
C1_TickOrder ==
  /\ IsPrefix(steps, FullTick)
  /\ pc \in {"labels", "force", "pin", "controls"} => pc = FullTick[Len(steps) + 1]
  /\ (pc = "ready" /\ ticks > 0) => steps = FullTick
  /\ pc = "force" =>
       \A k \in DOMAIN gravityZones :
         LET sp == objectSprites[SpriteIndex(objectSprites, gravityZones[k].objectId)]
         IN  gravityZones[k].text.x = sp.x /\ gravityZones[k].text.y = sp.y
  /\ pc = "controls" =>
       \A k \in DOMAIN objectSprites :
         IsTrue(objectSprites[k].isFixed) =>
           /\ objectSprites[k].x = objectSprites[k].fixedX[1]
           /\ objectSprites[k].y = objectSprites[k].fixedY[1]

\* A tick has completed in a scene with a zone, a Fixed sprite and a
\* controlled object.
C1_Witness ==
  /\ TickDone
  /\ gravityZones # <<>>
  /\ controlledObjects # <<>>
  /\ \E k \in DOMAIN objectSprites : IsTrue(objectSprites[k].isFixed)

\* C2: when update() returns, every entity with an enabled Fixed behavior
\* is at (screenX, screenY) of that behavior.
C2_FixedPinnedAtTickEnd ==
  TickDone =>
    \A i \in Entities :
      Enabled(FixedOf(i)) =>
        /\ SpriteOf(i).x = FixedOf(i).screenX
        /\ SpriteOf(i).y = FixedOf(i).screenY

\* The second tick has ended with a Fixed entity that carries a velocity
\* from control input (so the world step displaced it) at its screen position.
C2_Witness ==
  /\ TickDone
  /\ ticks = 2
  /\ \E i \in Entities :
       /\ Enabled(FixedOf(i))
       /\ SpriteOf(i).vx # 0
       /\ SpriteOf(i).x = FixedOf(i).screenX
       /\ SpriteOf(i).y = FixedOf(i).screenY

\* An eligible target of the Force Field System: an enabled Physics behavior,
\* not a gravity zone, boundary or controller, no enabled Fixed behavior and
\* no enabled Oblique behavior with isStatic (behaviors looked up by type).
EligibleTarget(obj) ==
  /\ Enabled(Find(obj.behaviors, "physics"))
  /\ obj.type \notin {"gravity", "boundary", "controller"}
  /\ ~ Enabled(Find(obj.behaviors, "fixed"))
  /\ ~ (Enabled(Find(obj.behaviors, "oblique")) /\ Find(obj.behaviors, "oblique").isStatic)

\* C7: the force step leaves the acceleration of every sprite that is not an
\* eligible target unchanged.
C7_ForceWritesOnlyEligible ==
  [][pc = "force" =>
       \A k \in DOMAIN objectSprites :
         ~ EligibleTarget(objectSprites[k].data) =>
           /\ objectSprites'[k].ax = objectSprites[k].ax
           /\ objectSprites'[k].ay = objectSprites[k].ay]_vars

\* The zone a gravityZones entry stands for, as the force step sees it.
ZoneDistance(k, sprite) ==
  LET center == objectSprites[SpriteIndex(objectSprites, gravityZones[k].objectId)]
  IN  Distance(center.x - sprite.x, center.y - sprite.y)

InRangeOf(k, sprite) ==
  /\ ZoneDistance(k, sprite) > 0
  /\ ZoneDistance(k, sprite) < MaxPullDistance(gravityZones[k].data)

\* The force step has just run over a sprite that is not an eligible target
\* (and is no zone) within range of a zone, and its acceleration is zero.
C7_Witness ==
  /\ pc = "pin"
  /\ \E k \in DOMAIN objectSprites :
       /\ ~ EligibleTarget(objectSprites[k].data)
       /\ objectSprites[k].data.type # "gravity"
       /\ \E z \in DOMAIN gravityZones : InRangeOf(z, objectSprites[k])
       /\ objectSprites[k].ax = 0 /\ objectSprites[k].ay = 0

\* The acceleration is the pull of zone z alone: magnitude |S| / d^2 x 10000,
\* along the line to the zone, toward it for S > 0 and away for S < 0.
IsPullOf(z, sprite) ==
  LET center == objectSprites[SpriteIndex(objectSprites, gravityZones[z].objectId)]
      strength == FinalGravityStrength(gravityZones[z].data)
      dx == center.x - sprite.x
      dy == center.y - sprite.y
      d == ZoneDistance(z, sprite)
      magnitude == Quot(Abs(strength) * PullFactor, d * d)
  IN  /\ sprite.ax * sprite.ax + sprite.ay * sprite.ay = magnitude * magnitude
      /\ sprite.ax * dy = sprite.ay * dx
      /\ Sign(sprite.ax * dx + sprite.ay * dy) = Sign(strength)

\* C10: after the force step, an eligible entity within range of exactly one
\* zone has the acceleration of that zone's pull, whatever zones are out of
\* range and in whatever order the zones are registered.
C10_SingleZonePull ==
  pc = "pin" =>
    \A k \in DOMAIN objectSprites :
      \A z \in DOMAIN gravityZones :
        ( /\ EligibleTarget(objectSprites[k].data)
          /\ ~ SomeEnabled(objectSprites[k].data.behaviors, "fixed")
          /\ InRangeOf(z, objectSprites[k])
          /\ \A y \in DOMAIN gravityZones \ {z} : ~ InRangeOf(y, objectSprites[k]) )
        => IsPullOf(z, objectSprites[k])

\* ---------------------------------------------------- force-field properties
\* The zones (indices of gravityZones) a sprite is within range of.
ZonesInRange(sprite) == {z \in DOMAIN gravityZones : InRangeOf(z, sprite)}

\* The zone registered last among a non-empty set of zones.
LastOf(zs) == CHOOSE z \in zs : \A y \in zs : y <= z

\* C11: after the force step, an eligible entity within range of several
\* zones has the acceleration computed from the last in-range zone in
\* registration order alone (the pulls are not summed).
C11_LastInRangeZoneWins ==
  pc = "pin" =>
    \A k \in DOMAIN objectSprites :
      ( /\ EligibleTarget(objectSprites[k].data)
        /\ Cardinality(ZonesInRange(objectSprites[k])) >= 2 )
      => IsPullOf(LastOf(ZonesInRange(objectSprites[k])), objectSprites[k])

AuthoredStrength(data) ==
  LET gb == Find(data.behaviors, "gravity")
  IN  IF Enabled(gb) THEN gb.strength
      ELSE IF data.gravityStrength = None THEN DefaultGravityStrength
      ELSE data.gravityStrength[1]

AuthoredRange(data) ==
  LET gb == Find(data.behaviors, "gravity")
  IN  IF Enabled(gb) THEN gb.maxDistance ELSE DefaultMaxDistance

\* C13: the strength and range the force step uses are the authored ones,
\* for every authored value.  In a scene with one zone, after the force step
\* an eligible entity at distance d > 0 has the pull of the authored strength
\* when d is below the authored range, and acceleration (0,0) otherwise.
C13_AuthoredStrengthAndRange ==
  (pc = "pin" /\ Len(gravityZones) = 1) =>
    \A k \in DOMAIN objectSprites :
      LET sprite == objectSprites[k]
          data == gravityZones[1].data
          center == objectSprites[SpriteIndex(objectSprites, gravityZones[1].objectId)]
          dx == center.x - sprite.x
          dy == center.y - sprite.y
          d == ZoneDistance(1, sprite)
          pull == Quot(AuthoredStrength(data) * PullFactor, d * d)
      IN  (EligibleTarget(sprite.data) /\ d > 0) =>
            IF d < AuthoredRange(data)
            THEN sprite.ax = Quot(dx * pull, d) /\ sprite.ay = Quot(dy * pull, d)
            ELSE sprite.ax = 0 /\ sprite.ay = 0

\* ---------------------------------------------------------- input properties
\* The sources of an action: its arrow key (jump has none), its WASD or Space
\* key, and its virtual-controller signal.
ArrowKeys(action) == IF action = "jump" THEN {} ELSE {"cursors." \o action}

WasdKey(action) == IF action = "jump" THEN "wasd.space" ELSE "wasd." \o action

SourcePressed(action) ==
  \/ ArrowKeys(action) \cap keysDown # {}
  \/ WasdKey(action) \in keysDown
  \/ virtualController[action]

\* The entities update() steers: those with an enabled Controls behavior.
Controlled == {i \in Entities : Enabled(ControlsOf(i))}

TopDown(i) == ControlsOf(i).allowVerticalMovement # Some(FALSE)

\* The sprite of an object after the step being taken.
SpriteAfter(i) == objectSprites'[SpriteIndex(objectSprites, objects[i].id)]

OnGround(i) == objects[i].id \in touchingDown

C15_PressedIsOrOfSources ==
  [][pc = "controls" =>
       \A i \in Controlled :
         LET params == ControlsOf(i)
         IN  /\ SpriteAfter(i).vx =
                  IF SourcePressed("left") THEN - params.moveSpeed
                  ELSE IF SourcePressed("right") THEN params.moveSpeed
                  ELSE 0
             /\ TopDown(i) =>
                  SpriteAfter(i).vy =
                    IF SourcePressed("up") THEN - params.moveSpeed
                    ELSE IF SourcePressed("down") THEN params.moveSpeed
                    ELSE 0
             /\ (~ TopDown(i) /\ OnGround(i)) =>
                  SpriteAfter(i).vy =
                    IF SourcePressed("up") \/ SourcePressed("jump")
                    THEN - params.jumpPower
                    ELSE SpriteOf(i).vy]_vars

\* A tick has ended in which only the jump button of the on-screen
\* controller was pressed, and the platformer on the ground took the impulse.
C15_Witness ==
  /\ TickDone
  /\ keysDown = {}
  /\ virtualController.jump
  /\ \E i \in Controlled :
       /\ ~ TopDown(i) /\ OnGround(i)
       /\ SpriteOf(i).vy = - ControlsOf(i).jumpPower

\* C16: in platformer mode the controls step sets the vertical velocity to
\* -jumpPower when up or jump is pressed and the body touches the ground,
\* and only then; airborne and without double jump, it leaves the vertical
\* velocity unchanged whatever is pressed.
C16_JumpNeedsGround ==
  [][pc = "controls" =>
       \A i \in Controlled :
         ~ TopDown(i) =>
           LET params == ControlsOf(i)
               wants == SourcePressed("up") \/ SourcePressed("jump")
           IN  /\ (wants /\ OnGround(i)) => SpriteAfter(i).vy = - params.jumpPower
               /\ (SpriteAfter(i).vy = - params.jumpPower
                     /\ SpriteOf(i).vy # - params.jumpPower) => (wants /\ OnGround(i))
               /\ (~ OnGround(i) /\ ~ params.canDoubleJump) =>
                    SpriteAfter(i).vy = SpriteOf(i).vy]_vars

\* A tick has ended with up held by an airborne platformer without double
\* jump: it keeps the velocity gravity gave it.
C16_Witness ==
  /\ TickDone
  /\ "cursors.up" \in keysDown
  /\ \E i \in Controlled :
       /\ ~ TopDown(i) /\ ~ OnGround(i)
       /\ ~ ControlsOf(i).canDoubleJump
       /\ SpriteOf(i).vy = GravityUnit

\* C17: with canDoubleJump the airborne impulse is applied at most once
\* between leaving the ground and the next ground contact, however often
\* the jump key is pressed and released during the flight.
C17_DoubleJumpOncePerFlight ==
  \A id \in DOMAIN airJumps : airJumps[id] <= 1

\* C18: a press sets the signal of a button to true and a release or a
\* pointer exit sets it to false; it then stays false until the next press,
\* and no controls step sees an action as pressed by the on-screen controller
\* once the pointer has released or left its button.
C18_NoStuckInput ==
  [][/\ \A b \in Buttons :
          /\ (b \in pointerOn' /\ b \notin pointerOn) => virtualController'[b]
          /\ (b \in pointerOn /\ b \notin pointerOn') => ~ virtualController'[b]
          /\ (~ virtualController[b] /\ b \notin pointerOn') => ~ virtualController'[b]
          /\ virtualController[b] => b \in pointerOn
     /\ (pc = "controls" /\ keysDown = {}) =>
          \A i \in Controlled :
            LET params == ControlsOf(i)
            IN  /\ "left" \notin pointerOn => SpriteAfter(i).vx # - params.moveSpeed
                /\ "right" \notin pointerOn => SpriteAfter(i).vx # params.moveSpeed
                /\ (TopDown(i) /\ "up" \notin pointerOn) =>
                     SpriteAfter(i).vy # - params.moveSpeed
                /\ (TopDown(i) /\ "down" \notin pointerOn) =>
                     SpriteAfter(i).vy # params.moveSpeed
                /\ (~ TopDown(i) /\ {"up", "jump"} \cap pointerOn = {}) =>
                     SpriteAfter(i).vy = SpriteOf(i).vy]_vars

\* After a tick the jump button was pressed and then released or left: its
\* signal is false again.
C18_Witness ==
  /\ TickDone
  /\ tap = <<"tapped", "jump">>
  /\ ~ virtualController.jump
  /\ pointerOn = {}

\* C19: the signal map is level-triggered.  With no key down, the controls
\* step moves every controlled entity by the buttons the pointer presses at
\* that tick (the last pointer write of each signal), and by nothing else: a
\* press released before the tick moves nothing.
C19_LevelTriggered ==
  [][(pc = "controls" /\ keysDown = {}) =>
       \A i \in Controlled :
         LET params == ControlsOf(i)
         IN  /\ SpriteAfter(i).vx =
                  IF "left" \in pointerOn THEN - params.moveSpeed
                  ELSE IF "right" \in pointerOn THEN params.moveSpeed
                  ELSE 0
             /\ TopDown(i) =>
                  SpriteAfter(i).vy =
                    IF "up" \in pointerOn THEN - params.moveSpeed
                    ELSE IF "down" \in pointerOn THEN params.moveSpeed
                    ELSE 0
             /\ ~ TopDown(i) =>
                  SpriteAfter(i).vy =
                    IF {"up", "jump"} \cap pointerOn # {} /\ OnGround(i)
                    THEN - params.jumpPower
                    ELSE SpriteOf(i).vy]_vars

\* A direction button was pressed and released between two ticks, and the
\* tick that followed left the top-down entity at rest.
C19_Witness ==
  /\ TickDone
  /\ tap[1] = "seen"
  /\ tap[2] \in {"left", "right", "up", "down"}
  /\ pointerOn = {}
  /\ \E i \in Controlled :
       TopDown(i) /\ SpriteOf(i).vx = 0 /\ SpriteOf(i).vy = 0

\* ------------------------------------------------------ lifecycle properties
\* C20: stopping tears everything down in one step.  While the runtime is
\* not mounted no game instance (with its entities and listeners) exists,
\* and at most one game instance exists at any time.
C20_AtomicTeardown ==
  /\ ~ mounted => (games = {} /\ gameRef = None)
  /\ Cardinality(games) <= 1

\* ------------------------------------------------------ scene-load properties
\* The object ids that occur in a collider.
InColliders == {colliders[k][1] : k \in DOMAIN colliders}
                 \cup {colliders[k][2] : k \in DOMAIN colliders}

SpriteIds == {objectSprites[k].objectId : k \in DOMAIN objectSprites}

\* C21: scene load is a partial success.  An object whose type is not a
\* known type creates no entity (no sprite is registered under its id and it
\* is in no collider), and every other non-controller object has its sprite.
C21_UnknownTypeSkipped ==
  Built =>
    \A i \in DOMAIN objects :
      /\ objects[i].type \notin KnownTypes =>
           (objects[i].id \notin SpriteIds /\ objects[i].id \notin InColliders)
      /\ (objects[i].type \in KnownTypes /\ objects[i].type # "controller") =>
           objects[i].id \in SpriteIds

\* ------------------------------------------------- absent-body properties
\* C22: for an entity with an enabled Controls behavior and no enabled
\* Physics behavior the controls step is a no-op: it leaves the velocity and
\* the position of the sprite as they were, whatever keys and buttons are
\* held.
C22_ControlsWithoutPhysicsNoOp ==
  [][pc = "controls" =>
       \A i \in Controlled :
         ~ HasPhysics(i) =>
           /\ SpriteAfter(i).vx = SpriteOf(i).vx
           /\ SpriteAfter(i).vy = SpriteOf(i).vy
           /\ SpriteAfter(i).x = SpriteOf(i).x
           /\ SpriteAfter(i).y = SpriteOf(i).y]_vars

\* ----------------------------------------------- behavior-lookup properties
\* The behaviors of a list without the repeats: the first of every type.
RECURSIVE FirstOfEachType(_, _)
FirstOfEachType(behaviors, seen) ==
  IF behaviors = <<>> THEN <<>>
  ELSE IF Head(behaviors).type \in seen THEN FirstOfEachType(Tail(behaviors), seen)
  ELSE <<Head(behaviors)>>
         \o FirstOfEachType(Tail(behaviors), seen \cup {Head(behaviors).type})

\* The object with every repeated behavior type removed.
WithoutRepeats(obj) == [obj EXCEPT !.behaviors = FirstOfEachType(obj.behaviors, {})]

\* The sprite createGameObject configures for an object.
BuiltSprite(obj) ==
  ApplyFixed(obj, ApplyOblique(obj, ApplyPhysics(obj, ApplyGravityType(obj, NewSprite(obj)))))

\* The configuration of a sprite, apart from the object data it carries.
ConfigOf(sprite) == [sprite EXCEPT !.data = None]

\* C23: only the first behavior of every type counts.  For every entity,
\* the repeated behaviors of its object change neither what scene build
\* made of it (sprite configuration, controls, camera follow) nor how the
\* force step treats it (skipped or not, zone strength and range).
C23_FirstBehaviorWins ==
  Built =>
    \A i \in Entities :
      LET obj == objects[i]
          first == WithoutRepeats(obj)
      IN  /\ ConfigOf(BuiltSprite(obj)) = ConfigOf(BuiltSprite(first))
          /\ Find(obj.behaviors, "controls") = Find(first.behaviors, "controls")
          /\ FollowOne(NoFollow, objectSprites, obj)
               = FollowOne(NoFollow, objectSprites, first)
          /\ SkippedByForce(SpriteOf(i))
               = SkippedByForce([SpriteOf(i) EXCEPT !.data = first])
          /\ FinalGravityStrength(obj) = FinalGravityStrength(first)
          /\ MaxPullDistance(obj) = MaxPullDistance(first)

\* ------------------------------------------------ collision-graph properties
\* The colliders that exist for the unordered pair of objects i and j.
CollidersOf(i, j) ==
  {k \in DOMAIN colliders :
     colliders[k] \in {<<objects[i].id, objects[j].id>>, <<objects[j].id, objects[i].id>>}}

\* C24: the collision graph is built once.  After create() every pair of
\* entities that should collide holds exactly one collider, and every other
\* pair none.
C24_OneColliderPerPair ==
  Built =>
    \A p \in SpritePairs :
      Cardinality(CollidersOf(p[1], p[2])) =
        IF ShouldCollide(SpriteOf(p[1]), SpriteOf(p[2])) THEN 1 ELSE 0

\* The unordered pairs of a list of colliders.
PairSet(list) == {{list[k][1], list[k][2]} : k \in DOMAIN list}

\* The sprites in another order.
Reordered(sprites, f) == [k \in DOMAIN sprites |-> sprites[f[k]]]

C26_LabelShowsStrength ==
  pc = "force" =>
    \A k \in DOMAIN gravityZones :
      LET zone == gravityZones[k]
          sp == objectSprites[SpriteIndex(objectSprites, zone.objectId)]
      IN  /\ zone.text.x = sp.x
          /\ zone.text.y = sp.y
          /\ zone.text.label = Abs(FinalGravityStrength(zone.data))

\* -------------------------------------------------- two-controller properties
\* The buttons some controller's pointer is holding.
HeldOnSomePad == {b \in Buttons : \E w \in WidgetIds : <<w, b>> \in padOn}

\* C27: with two controllers, an action is pressed in the tick as long as
\* the button for it is held on any of them: a release or a pointer exit on
\* one controller does not clear what the other still holds.
C27_PadsIndependent ==
  pc = "controls" => \A b \in HeldOnSomePad : Pressed[b]

\* ---------------------------------------------------- double-jump properties
\* The keyboard jump sources: arrow-up, W and Space.
KeyboardJumpSources == {"cursors.up", "wasd.up", "wasd.space"}

\* C28: the double jump is fired exactly by a just-pressed keyboard jump
\* source.  In the controls step of an airborne platformer entity with
\* canDoubleJump, a set just-down flag of arrow-up, W or Space gives the
\* impulse -jumpPower * 0.8, and without one the vertical velocity is left
\* unchanged, whatever the virtual controller's up and jump signals are.
C28_DoubleJumpOnKeyboardEdge ==
  [][pc = "controls" =>
       \A i \in Controlled :
         LET params == ControlsOf(i)
         IN  (~ TopDown(i) /\ params.canDoubleJump /\ ~ OnGround(i)) =>
               SpriteAfter(i).vy =
                 IF KeyboardJumpSources \cap justDown # {}
                 THEN - ((params.jumpPower * 8) \div 10)
                 ELSE SpriteOf(i).vy]_vars

\* ------------------------------------------------------- camera properties
\* The entities whose first Camera behavior is enabled.
Followed == {i \in Entities : Enabled(Find(objects[i].behaviors, "camera"))}

\* The last of them in scene order.
LastFollowed == CHOOSE i \in Followed : \A j \in Followed : j <= i

\* C29: with several enabled Camera behaviors the camera is configured by
\* the last such entity alone: follow target, smoothing, follow offset and
\* deadzone are those of its behavior, and it has no deadzone when that
\* behavior defines none.
C29_LastCameraWins ==
  (Built /\ Followed # {}) =>
    LET cb == Find(objects[LastFollowed].behaviors, "camera")
    IN  /\ camera.follow = Some(objects[LastFollowed].id)
        /\ camera.smoothing = Some(cb.smoothing)
        /\ camera.offset = Some(<<cb.offsetX, cb.offsetY>>)
        /\ camera.deadzone = cb.deadzone

\* --------------------------------------------------- gravity-zone properties
\* The ids of the objects of type gravity.
ZoneIds == {objects[i].id : i \in {j \in DOMAIN objects : objects[j].type = "gravity"}}

\* C30: gravity zones do not collide: after scene build no collider has a
\* gravity zone on either side.
C30_ZonesDoNotCollide ==
  Built => InColliders \cap ZoneIds = {}

====
